---- MODULE Spec2Model ----
(***************************************************************************)
(* Model of sodiumoxide's generic authentication module                    *)
(* (src/crypto/auth/auth_macros.rs): the one-shot interface of             *)
(* auth_module! (Key, Tag, gen_key, authenticate, verify) and the          *)
(* streaming interface of auth_state! (State::init / update / finalize and *)
(* impl Drop for State).                                                   *)
(*                                                                         *)
(* The macros are generic over the libsodium primitive they are            *)
(* instantiated with ($auth_name, $verify_name, $init_name, $update_name,  *)
(* $final_name).  The primitive is not part of the source file; it is      *)
(* modelled here as a small keyed hash with HMAC's structure               *)
(* (inner hash over ipad-key and message, outer hash over opad-key and the *)
(* inner digest), computed over scaled-down bytes.  The wrappers of the    *)
(* source file are modelled operation by operation on top of it.           *)
(***************************************************************************)
EXTENDS Integers, Sequences, FiniteSets, TLC

(***************************************************************************)
(* Sizes.  KEYBYTES and TAGBYTES are the macro parameters $keybytes and    *)
(* $tagbytes (32 and 32 for hmacsha256), scaled down.  A byte (u8) is      *)
(* scaled down to two bits: its values are 0..3 and its bits are 1 and 2.  *)
(* MaxLen bounds the message length, MaxUpdates the update calls on a      *)
(* State before its first finalize.                                        *)
(***************************************************************************)
KEYBYTES == 2
TAGBYTES == 2
MaxLen == 2
MaxUpdates == 3

Byte == 0 .. 3
BitMasks == {1, 2}
ByteBits == Cardinality(BitMasks)
ByteMod == Cardinality(Byte)

RECURSIVE SeqsUpTo(_, _)
SeqsUpTo(S, n) ==
    IF n = 0 THEN { <<>> }
    ELSE LET shorter == SeqsUpTo(S, n - 1)
         IN  shorter \cup { Append(s, x) : s \in { t \in shorter : Len(t) = n - 1 }, x \in S }

BytesOfLen(n) == { s \in SeqsUpTo(Byte, n) : Len(s) = n }
Messages == SeqsUpTo(Byte, MaxLen)
Keys == BytesOfLen(KEYBYTES)
Tags == BytesOfLen(TAGBYTES)
Zeros(n) == [i \in 1 .. n |-> 0]

(***************************************************************************)
(* Bitwise operations on bytes.                                            *)
(***************************************************************************)
RECURSIVE XorN(_, _, _)
XorN(a, b, n) ==
    IF n = 0 THEN 0
    ELSE ((a + b) % 2) + 2 * XorN(a \div 2, b \div 2, n - 1)

RECURSIVE OrN(_, _, _)
OrN(a, b, n) ==
    IF n = 0 THEN 0
    ELSE (IF (a % 2) + (b % 2) > 0 THEN 1 ELSE 0) + 2 * OrN(a \div 2, b \div 2, n - 1)

Xor(a, b) == XorN(a, b, ByteBits)
Or(a, b) == OrN(a, b, ByteBits)

\* s with the bit `mask` of its j-th byte flipped (m[j] ^= 0x20 in the tests).
FlipBit(s, j, mask) == [s EXCEPT ![j] = Xor(@, mask)]

(***************************************************************************)
(* The primitive: a keyed hash with HMAC's structure.                      *)
(*   hash state  = [h, count]; a byte b is absorbed as h*HashMul + b + 1   *)
(*   modulo HashMod; the digest absorbs the byte count and is written as   *)
(*   TAGBYTES big-endian digits.                                           *)
(* HashMod is prime and HashMul is the byte radix: changing one bit of the *)
(* hashed bytes always changes the digest, so within the model's sizes the *)
(* primitive has no single-bit collisions (the MAC contract assumed of the *)
(* real primitive).                                                        *)
(***************************************************************************)
HashMod == 13
HashIV == 7
IPad == 1
OPad == 2
HashMul == ByteMod

Absorb(h, b) == (h * HashMul + b + 1) % HashMod

RECURSIVE AbsorbAll(_, _)
AbsorbAll(h, s) ==
    IF s = <<>> THEN h ELSE AbsorbAll(Absorb(h, Head(s)), Tail(s))

\* The digest value v as TAGBYTES bytes, most significant first.
Encode(v) == [i \in 1 .. TAGBYTES |-> (v \div (ByteMod ^ (TAGBYTES - i))) % ByteMod]

\* One-shot hash of a whole byte string.
Hash(s) == Encode(Absorb(AbsorbAll(HashIV, s), Len(s)))

\* The key, zero-padded to the block length and xored with a pad byte.
PadKey(k, pad) == [i \in 1 .. KEYBYTES |-> Xor(IF i <= Len(k) THEN k[i] ELSE 0, pad)]

\* $auth_name(out, m, mlen, k): the tag of the first mlen bytes of m under k.
auth_name(m, mlen, k) ==
    Hash(PadKey(k, OPad) \o Hash(PadKey(k, IPad) \o SubSeq(m, 1, mlen)))

(***************************************************************************)
(* Constant-time comparison (crypto::verify::safe_memcmp, libsodium's      *)
(* crypto_verify_N): every byte pair is visited, the differences are       *)
(* or-ed together, and the result is read once at the end.                 *)
(***************************************************************************)
RECURSIVE memcmp_loop(_, _, _, _)
memcmp_loop(x, y, i, acc) ==
    IF i > Len(x) THEN acc
    ELSE memcmp_loop(x, y, i + 1,
                     [d |-> Or(acc.d, Xor(x[i], y[i])), steps |-> acc.steps + 1])

\* Fault variant: a comparison that stops at the first differing byte.
RECURSIVE memcmp_early(_, _, _, _)
memcmp_early(x, y, i, acc) ==
    IF i > Len(x) THEN acc
    ELSE IF x[i] # y[i] THEN [d |-> 1, steps |-> acc.steps + 1]
    ELSE memcmp_early(x, y, i + 1, [d |-> 0, steps |-> acc.steps + 1])

safe_memcmp_early(x, y) ==
    LET r == memcmp_early(x, y, 1, [d |-> 0, steps |-> 0])
    IN  [eq |-> r.d = 0, steps |-> r.steps]

\* [eq: whether x = y, steps: the number of byte pairs compared]
safe_memcmp(x, y) ==
    LET r == memcmp_loop(x, y, 1, [d |-> 0, steps |-> 0])
    IN  [eq |-> r.d = 0, steps |-> r.steps]

\* $verify_name(tag, m, mlen, k): 0 when tag is the tag of m under k, else -1.
verify_name(tag, m, mlen, k) ==
    LET c == safe_memcmp(tag, auth_name(m, mlen, k))
    IN  [rc |-> IF c.eq THEN 0 ELSE -1, steps |-> c.steps]

(***************************************************************************)
(* auth_module!: the one-shot wrappers.                                    *)
(***************************************************************************)
\* Fault variant: the length passed to the primitive is one short.
authenticate_short(m, k) == auth_name(m, IF Len(m) > 0 THEN Len(m) - 1 ELSE 0, k)

\* authenticate(m, &Key(k)) -> Tag
authenticate(m, k) == auth_name(m, Len(m), k)

\* Fault variants: the primitive's return code is misread.
verify_nonneg(tag, m, k) == verify_name(tag, m, Len(m), k).rc <= 0
verify_negated(tag, m, k) == verify_name(tag, m, Len(m), k).rc # 0

\* verify(&Tag(tag), m, &Key(k)) -> bool
verify(tag, m, k) == verify_name(tag, m, Len(m), k).rc = 0

\* The comparison work of one verify call.
verify_steps(tag, m, k) == verify_name(tag, m, Len(m), k).steps

\* Tag's PartialEq (non_secret_newtype_impl!): safe_memcmp of the two arrays.
Tag_eq(a, b) == safe_memcmp(a, b)

\* newtype_drop!(Key): the Key's bytes are overwritten with zeros.
Key_drop(mem) == Zeros(Len(mem))

(***************************************************************************)
(* The streaming primitive.  The context `$state_name` holds the inner and *)
(* the outer hash state and a block buffer:                                *)
(*   [ih, icount, oh, ocount, buf]                                         *)
(* CtxOffset gives the position of each field in the struct, so that       *)
(* sodium_memzero(ctx, n) can zero its first n words.                      *)
(***************************************************************************)
CtxOffset == [ih |-> 0, icount |-> 1, oh |-> 2, ocount |-> 3, buf |-> 4]
size_of_val(s) == Cardinality(DOMAIN s)

\* ffi::sodium_memzero(p, n): the first n words of the struct become zero.
sodium_memzero(s, n) == [f \in DOMAIN s |-> IF CtxOffset[f] < n THEN 0 ELSE s[f]]

ZeroCtx == [f \in DOMAIN CtxOffset |-> 0]
IsZero(s) == \A f \in DOMAIN s : s[f] = 0

\* mem::uninitialized(): a context whose words hold whatever was there.
Uninitialized(g) == [f \in DOMAIN CtxOffset |-> g]

\* $init_name(&mut s, k, klen): both hash states are keyed; the block
\* buffer is not written.
init_name(s, k, klen) ==
    [s EXCEPT !.ih = AbsorbAll(HashIV, PadKey(SubSeq(k, 1, klen), IPad)),
              !.icount = KEYBYTES,
              !.oh = AbsorbAll(HashIV, PadKey(SubSeq(k, 1, klen), OPad)),
              !.ocount = KEYBYTES]

\* $update_name(state, in, inlen): the inner hash absorbs inlen bytes of in.
update_name(s, in, inlen) ==
    [s EXCEPT !.ih = AbsorbAll(@, SubSeq(in, 1, inlen)),
              !.icount = @ + inlen]

\* $final_name(state, &mut tag): the tag written to the out buffer.
final_tag(s) ==
    LET ihash == Encode(Absorb(s.ih, s.icount))
    IN  Encode(Absorb(AbsorbAll(s.oh, ihash), s.ocount + TAGBYTES))

\* What $final_name may leave in the context.  Its contract fixes the tag,
\* not the context: an implementation may leave the finished hash states in
\* place or wipe them (libsodium's hash finalisation wipes).
final_ctxs(s) ==
    { [s EXCEPT !.ih = Absorb(s.ih, s.icount),
                !.oh = Absorb(AbsorbAll(s.oh, Encode(Absorb(s.ih, s.icount))),
                              s.ocount + TAGBYTES),
                !.ocount = @ + TAGBYTES],
      sodium_memzero(s, size_of_val(s)) }

(***************************************************************************)
(* auth_state!: the streaming wrappers.                                    *)
(***************************************************************************)
\* State::init(k): `let mut s = mem::uninitialized(); $init_name(&mut s, ..)`
State_init(g, k) == init_name(Uninitialized(g), k, Len(k))

\* Fault variant: only the first byte of a longer chunk is passed on.
State_update_short(s, in) == update_name(s, in, IF Len(in) > 1 THEN 1 ELSE Len(in))

\* State::update(&mut self, in_)
State_update(s, in) == update_name(s, in, Len(in))

\* State::finalize(&mut self) -> Tag: the returned tag.
State_finalize(s) == final_tag(s)

\* Fault variant: the size of the pointer is zeroed, not that of the struct.
State_drop_pointer_size(s) == sodium_memzero(s, 1)

\* impl Drop for State: sodium_memzero(sp, mem::size_of_val(s))
State_drop(s) == sodium_memzero(s, size_of_val(s))

(***************************************************************************)
(* State of the program.                                                   *)
(*   key    the one-shot Key object: st in none/live/dropped, its memory,  *)
(*          and (history) the bytes gen_key put there                      *)
(*   call   the last one-shot call: operation, arguments, result           *)
(*   state  per State object: its condition and its context memory         *)
(*   ghost  per State object (history): the key given to init, the bytes   *)
(*          fed by update before the first finalize, call counts, and the  *)
(*          tag the first finalize returned                                *)
(*   last   the last streaming operation and the State it acted on         *)
(*   exit   how the enclosing scope ended: none / normal / unwind          *)
(***************************************************************************)
VARIABLES key, call, state, ghost, last, exit

vars == <<key, call, state, ghost, last, exit>>

States == {1, 2}
\* Bounds on the calls made on a State after its first finalize: finalize
\* calls in all, and update calls on the finalized State.
MaxFinal == 2
MaxLate == 1

NoCall == [op |-> "none", kind |-> "none", m |-> <<>>, k |-> <<>>,
           tag |-> <<>>, other |-> <<>>, ret |-> FALSE, steps |-> 0]
NoGhost == [k |-> <<>>, msg |-> <<>>, nupd |-> 0, empty |-> FALSE,
            nfin |-> 0, late |-> 0, tag |-> <<>>]

Init ==
    /\ key = [st |-> "none", mem |-> Zeros(KEYBYTES), orig |-> Zeros(KEYBYTES)]
    /\ call = NoCall
    /\ state = [i \in States |-> [st |-> "Uninit", ctx |-> ZeroCtx]]
    /\ ghost = [i \in States |-> NoGhost]
    /\ last = [op |-> "none", id |-> 0, on |-> "none"]
    /\ exit = "none"

Live(i) == state[i].st \in {"Initialized", "Finalized"}

(***************************************************************************)
(* One-shot operations.  authenticate and verify are stateless and leave   *)
(* the Key as it is, so a call's record depends on nothing but its         *)
(* arguments: the model follows one call, or one authenticate and one use  *)
(* of its tag, per Key, which reaches every record any longer sequence of  *)
(* calls reaches.                                                          *)
(***************************************************************************)
\* gen_key(): KEYBYTES random bytes (randombytes_into) become a Key.
GenKey(k) ==
    /\ exit = "none"
    /\ key.st = "none"
    /\ key' = [st |-> "live", mem |-> k, orig |-> k]
    /\ UNCHANGED <<call, state, ghost, last, exit>>

\* let tag = authenticate(&m, &k)
Authenticate(m) ==
    /\ exit = "none"
    /\ key.st = "live"
    /\ call.op = "none"
    /\ call' = [NoCall EXCEPT !.op = "authenticate", !.kind = "authenticate",
                              !.m = m, !.k = key.mem,
                              !.tag = authenticate(m, key.mem), !.ret = TRUE]
    /\ UNCHANGED <<key, state, ghost, last, exit>>

\* The record of a call verify(&tag, &m, &k).
VerifyCall(kind, tag, m) ==
    [NoCall EXCEPT !.op = "verify", !.kind = kind, !.m = m, !.k = key.mem,
                   !.tag = tag, !.ret = verify(tag, m, key.mem),
                   !.steps = verify_steps(tag, m, key.mem)]

\* verify(&tag, &m, &k) on any tag and message.
Verify(tag, m) ==
    /\ exit = "none"
    /\ key.st = "live"
    /\ call.op = "none"
    /\ call' = VerifyCall("any", tag, m)
    /\ UNCHANGED <<key, state, ghost, last, exit>>

\* test_auth_verify: verify(&tag, &m, &k) with the tag authenticate returned.
VerifyOwn ==
    /\ exit = "none"
    /\ key.st = "live"
    /\ call.op = "authenticate"
    /\ call' = VerifyCall("roundtrip", call.tag, call.m)
    /\ UNCHANGED <<key, state, ghost, last, exit>>

\* test_auth_verify_tamper: m[j] ^= bit; verify(&Tag(tagbuf), &m, &k)
VerifyTamperedMessage(j, mask) ==
    /\ exit = "none"
    /\ key.st = "live"
    /\ call.op = "authenticate"
    /\ j \in 1 .. Len(call.m)
    /\ call' = VerifyCall("tamper_message", call.tag, FlipBit(call.m, j, mask))
    /\ UNCHANGED <<key, state, ghost, last, exit>>

\* test_auth_verify_tamper: tagbuf[j] ^= bit; verify(&Tag(tagbuf), &m, &k)
VerifyTamperedTag(j, mask) ==
    /\ exit = "none"
    /\ key.st = "live"
    /\ call.op = "authenticate"
    /\ j \in 1 .. TAGBYTES
    /\ call' = VerifyCall("tamper_tag", FlipBit(call.tag, j, mask), call.m)
    /\ UNCHANGED <<key, state, ghost, last, exit>>

\* tag == b, for the tag authenticate returned and any Tag b.
CompareTags(b) ==
    /\ exit = "none"
    /\ call.op = "authenticate"
    /\ call' = [call EXCEPT !.op = "tag_eq", !.kind = "tag_eq",
                            !.other = b, !.ret = Tag_eq(call.tag, b).eq,
                            !.steps = Tag_eq(call.tag, b).steps]
    /\ UNCHANGED <<key, state, ghost, last, exit>>

\* The Key goes out of scope.
DropKey ==
    /\ exit = "none"
    /\ key.st = "live"
    /\ key' = [key EXCEPT !.st = "dropped", !.mem = Key_drop(@)]
    /\ UNCHANGED <<call, state, ghost, last, exit>>

(***************************************************************************)
(* Streaming operations.  update and finalize take `&mut self`: they are   *)
(* callable on any State that exists, whatever was called on it before.    *)
(***************************************************************************)
\* let mut state = State::init(k), over whatever the memory held (g).
StateInit(i, k, g) ==
    /\ exit = "none"
    /\ state[i].st = "Uninit"
    /\ state' = [state EXCEPT ![i] = [st |-> "Initialized", ctx |-> State_init(g, k)]]
    /\ ghost' = [ghost EXCEPT ![i] = [NoGhost EXCEPT !.k = k]]
    /\ last' = [op |-> "init", id |-> i, on |-> "Uninit"]
    /\ UNCHANGED <<key, call, exit>>

\* let mut state = State::init(&k[..]) with the bytes of the live Key.
StateInitWithKey(i, g) ==
    /\ key.st = "live"
    /\ StateInit(i, key.mem, g)

\* Fault variant: one context shared by every State.
UpdateStates_shared(st, i, c) ==
    [j \in DOMAIN st |->
        IF st[j].st \in {"Initialized", "Finalized"}
        THEN [st[j] EXCEPT !.ctx = State_update(@, c)] ELSE st[j]]

\* update's effect on the State objects: `let &mut State(ref mut state) = self`
UpdateStates(st, i, c) == [st EXCEPT ![i].ctx = State_update(@, c)]

\* state.update(c)
StateUpdate(i, c) ==
    /\ exit = "none"
    /\ Live(i)
    /\ IF state[i].st = "Initialized"
       THEN /\ ghost[i].nupd < MaxUpdates
            /\ Len(ghost[i].msg) + Len(c) <= MaxLen
            /\ ghost' = [ghost EXCEPT ![i].msg = @ \o c, ![i].nupd = @ + 1,
                                      ![i].empty = @ \/ c = <<>>]
       ELSE /\ ghost[i].late < MaxLate
            /\ ghost' = [ghost EXCEPT ![i].late = @ + 1]
    /\ state' = UpdateStates(state, i, c)
    /\ last' = [op |-> "update", id |-> i, on |-> state[i].st]
    /\ UNCHANGED <<key, call, exit>>

\* let tag = state.finalize()
StateFinalize(i) ==
    /\ exit = "none"
    /\ Live(i)
    /\ ghost[i].nfin < MaxFinal
    /\ \E c2 \in final_ctxs(state[i].ctx) :
          state' = [state EXCEPT ![i] = [st |-> "Finalized", ctx |-> c2]]
    /\ ghost' = [ghost EXCEPT ![i].nfin = @ + 1,
                              ![i].tag = IF ghost[i].nfin = 0
                                         THEN State_finalize(state[i].ctx) ELSE @]
    /\ last' = [op |-> "finalize", id |-> i, on |-> state[i].st]
    /\ UNCHANGED <<key, call, exit>>

\* A State object after its Drop ran.
Dropped(s) == [st |-> "Dropped", ctx |-> State_drop(s.ctx)]

\* The State goes out of scope (or drop(state)).
StateDrop(i) ==
    /\ exit = "none"
    /\ Live(i)
    /\ state' = [state EXCEPT ![i] = Dropped(@)]
    /\ last' = [op |-> "drop", id |-> i, on |-> state[i].st]
    /\ UNCHANGED <<key, call, ghost, exit>>

\* The enclosing scope ends, normally or by unwinding from a panic: the
\* destructors of every live Key and State run.
ScopeExit(kind) ==
    /\ exit = "none"
    /\ exit' = kind
    /\ key' = IF key.st = "live"
              THEN [key EXCEPT !.st = "dropped", !.mem = Key_drop(@)] ELSE key
    /\ state' = [i \in States |-> IF Live(i) THEN Dropped(state[i]) ELSE state[i]]
    /\ last' = [op |-> "exit", id |-> 0, on |-> "none"]
    /\ UNCHANGED <<call, ghost>>

ExitKinds == {"normal", "unwind"}

(***************************************************************************)
(* Specifications.                                                         *)
(*   SpecAuth    the one-shot interface on one Key, all keys, messages and *)
(*               tags within the bounds                                    *)
(*   Spec        one State used as documented (init, updates, finalize):   *)
(*               all keys of any length up to KEYBYTES, all chunkings of   *)
(*               all messages within the bounds                            *)
(*   SpecAnyOrder  one State with every call the signatures allow, in any  *)
(*               order: update and finalize on any State that exists       *)
(*   SpecPair    a Key and two States used as documented, their            *)
(*               operations interleaved, with inputs drawn from PairKeys / *)
(*               PairChunks / PairResidue                                  *)
(***************************************************************************)
NextAuth ==
    \/ \E k \in Keys : GenKey(k)
    \/ \E m \in Messages : Authenticate(m)
    \/ \E t \in Tags, m \in Messages : Verify(t, m)
    \/ VerifyOwn
    \/ \E j \in 1 .. MaxLen, b \in BitMasks : VerifyTamperedMessage(j, b)
    \/ \E j \in 1 .. TAGBYTES, b \in BitMasks : VerifyTamperedTag(j, b)
    \/ \E b \in Tags : CompareTags(b)
    \/ DropKey
    \/ \E e \in ExitKinds : ScopeExit(e)

SpecAuth == Init /\ [][NextAuth]_vars

StreamKeys == SeqsUpTo(Byte, KEYBYTES)

\* What the words of an uninitialized context may hold: all bits clear or
\* all bits set.
Residue == {0, 3}

\* The documented protocol: update and finalize are called on a State
\* that has not been finalized.
Proper(i) == state[i].st = "Initialized"

Next ==
    \/ \E k \in StreamKeys, g \in Residue : StateInit(1, k, g)
    \/ \E c \in Messages : Proper(1) /\ StateUpdate(1, c)
    \/ Proper(1) /\ StateFinalize(1)
    \/ StateDrop(1)

Spec == Init /\ [][Next]_vars

AnyOrderChunks == { <<>>, <<1>>, <<2, 3>> }

NextAnyOrder ==
    \/ \E k \in StreamKeys, g \in Residue : StateInit(1, k, g)
    \/ \E c \in AnyOrderChunks : StateUpdate(1, c)
    \/ StateFinalize(1)
    \/ StateDrop(1)

SpecAnyOrder == Init /\ [][NextAnyOrder]_vars

PairKeys == { <<1, 2>>, <<3>> }
PairGenKeys == { <<2, 1>> }
PairChunks == { <<>>, <<1>>, <<2>> }
PairResidue == { 3 }

NextPair ==
    \/ \E k \in PairGenKeys : GenKey(k)
    \/ DropKey
    \/ \E i \in States, k \in PairKeys, g \in PairResidue : StateInit(i, k, g)
    \/ \E i \in States, g \in PairResidue : StateInitWithKey(i, g)
    \/ \E i \in States, c \in PairChunks : Proper(i) /\ StateUpdate(i, c)
    \/ \E i \in States : Proper(i) /\ StateFinalize(i)
    \/ \E i \in States : StateDrop(i)
    \/ \E e \in ExitKinds : ScopeExit(e)

SpecPair == Init /\ [][NextPair]_vars

(***************************************************************************)
(* Properties.                                                             *)
(***************************************************************************)

\* C1 (Spec): streaming equivalence.  For every key k, every message m and
\* every way of feeding m to update in order (no chunk at all, zero-length
\* chunks, single-byte chunks, one chunk with all of m), the tag returned by
\* init(k), update(chunk)..., finalize() equals authenticate(m, k).
C1_StreamingEquivalence ==
    \A i \in States :
        (ghost[i].nfin >= 1 /\ Len(ghost[i].k) = KEYBYTES)
            => ghost[i].tag = authenticate(ghost[i].msg, ghost[i].k)

\* C1 witness: a two-byte message fed in single bytes with a zero-length
\* chunk in between, then finalized.
C1_Witness ==
    /\ ghost[1].nfin = 1
    /\ Len(ghost[1].k) = KEYBYTES
    /\ ghost[1].nupd = 3
    /\ ghost[1].empty
    /\ Len(ghost[1].msg) = 2
    /\ ghost[1].msg[1] # ghost[1].msg[2]
    /\ ghost[1].tag = authenticate(ghost[1].msg, ghost[1].k)

\* C2 (SpecAuth): round trip.  For every key k and message m, verify called
\* with the tag authenticate(m, k) returned, m and k returns true.
C2_RoundTrip == call.kind = "roundtrip" => call.ret = TRUE

\* C2 witness: the round trip of the empty message under a non-zero key.
C2_Witness ==
    /\ call.kind = "roundtrip"
    /\ call.m = <<>>
    /\ call.k # Zeros(KEYBYTES)
    /\ call.ret = TRUE

\* C3 (SpecAuth): tamper sensitivity.  With t = authenticate(m, k), verify
\* returns false for t and m with one bit flipped, and for t with one bit
\* flipped and m.
C3_TamperSensitivity ==
    call.kind \in {"tamper_message", "tamper_tag"} => call.ret = FALSE

\* C3 witness: a flipped bit in the last byte of a message of full length
\* is rejected.
C3_Witness ==
    /\ call.kind = "tamper_message"
    /\ Len(call.m) = MaxLen
    /\ \E mask \in BitMasks :
          call.tag = authenticate(FlipBit(call.m, MaxLen, mask), call.k)
    /\ call.ret = FALSE

\* C4 (SpecAuth): verify(tag, m, k) is true exactly when tag is
\* authenticate(m, k); a mismatch is the boolean false.
C4_VerifyIffEqual ==
    call.op = "verify" =>
        /\ call.ret \in BOOLEAN
        /\ call.ret = (call.tag = authenticate(call.m, call.k))

\* C4 witness: a verify call on a tag that is not the message's tag
\* returned false.
C4_Witness ==
    /\ call.op = "verify"
    /\ call.kind = "any"
    /\ call.tag # authenticate(call.m, call.k)
    /\ call.ret = FALSE

\* C5 (SpecAnyOrder): Finalized is terminal.  Once finalize() has been
\* applied to a State, neither finalize() nor update() is applied to it
\* again.
C5_FinalizedIsTerminal ==
    [][\A i \in States :
          state[i].st = "Finalized"
              => /\ ghost'[i].nfin = ghost[i].nfin
                 /\ ghost'[i].late = ghost[i].late]_vars

\* C6 (SpecAnyOrder): when finalize() has just returned, and before the State
\* is dropped, the State's context is all zero.
C6_ZeroWhenFinalizeReturns ==
    \A i \in States :
        (last.op = "finalize" /\ last.id = i) => IsZero(state[i].ctx)

\* C7 (SpecPair): zeroization on drop.  After a Key or a State is dropped,
\* by its own scope ending or by the enclosing scope exiting normally or by
\* unwinding, after init only, after updates, with or without finalize, all
\* of its memory is zero.
C7_ZeroAfterDrop ==
    /\ key.st = "dropped" => key.mem = Zeros(KEYBYTES)
    /\ \A i \in States : state[i].st = "Dropped" => IsZero(state[i].ctx)

\* C7 witness: unwinding dropped a Key that held non-zero bytes, a State
\* that had absorbed a chunk and was not finalized, and a finalized State.
C7_Witness ==
    /\ exit = "unwind"
    /\ key.st = "dropped"
    /\ key.orig # Zeros(KEYBYTES)
    /\ state[1].st = "Dropped"
    /\ ghost[1].nfin = 0
    /\ ghost[1].msg # <<>>
    /\ state[2].st = "Dropped"
    /\ ghost[2].nfin = 1

\* C8 (SpecAnyOrder): every update() and finalize() acts on a State in the
\* Initialized condition.
C8_ActsOnInitialized ==
    last.op \in {"update", "finalize"} => last.on = "Initialized"

\* C9 (SpecAuth): constant-time comparison.  The number of byte pairs
\* compared by verify and by Tag equality is TAGBYTES, wherever the tags
\* first differ.
C9_ConstantTimeCompare ==
    call.op \in {"verify", "tag_eq"} => call.steps = TAGBYTES

\* C9 witness: a verify call whose tag differs from the right one already in
\* its first byte.
C9_Witness ==
    /\ call.op = "verify"
    /\ call.kind = "any"
    /\ call.tag[1] # authenticate(call.m, call.k)[1]
    /\ call.steps = TAGBYTES

\* The tag a State would return, and the tag its first finalize returned,
\* is the tag of its own chunks under its own key.
OwnResult ==
    \A i \in States :
        /\ state[i].st = "Initialized"
              => State_finalize(state[i].ctx)
                     = auth_name(ghost[i].msg, Len(ghost[i].msg), ghost[i].k)
        /\ ghost[i].nfin >= 1
              => ghost[i].tag
                     = auth_name(ghost[i].msg, Len(ghost[i].msg), ghost[i].k)

\* A step changes the memory and the history of no State but the one the
\* operation acts on (a scope exit drops them all).
Frame ==
    \A j \in States :
        (state'[j] # state[j] \/ ghost'[j] # ghost[j])
            => (last'.id = j \/ last'.op = "exit")

\* C10 (SpecPair): independence of streaming computations.  With the
\* operations of two States interleaved in any order, each State's finalize
\* returns the tag of its own chunks under its own key, and an operation on
\* one State, dropping it included, changes nothing of the other.
C10_Independence == [](OwnResult) /\ [][Frame]_vars

\* C10 witness: two States with different keys and different messages, both
\* finalized, one of them dropped.
C10_Witness ==
    /\ ghost[1].nfin = 1
    /\ ghost[2].nfin = 1
    /\ ghost[1].k # ghost[2].k
    /\ ghost[1].msg # <<>>
    /\ ghost[2].msg # <<>>
    /\ ghost[1].msg # ghost[2].msg
    /\ state[1].st = "Dropped"
    /\ state[2].st = "Finalized"
====
